---- MODULE Spec2Model ----
(* klvdata/common.py: the codec primitives of a KLV (SMPTE ST 336 / MISB ST
   0601) library.  Every function is pure; the model calls a function on an
   input drawn from a bounded set and records the call, its argument and its
   outcome.  Every call starts from the initial state; a call made on the
   outcome of the preceding call (a round trip) keeps the first input in
   src. *)
EXTENDS Integers, Sequences, FiniteSets, TLC

VARIABLES call, arg, ret, src

vars == <<call, arg, ret, src>>

(* Bounds of the inputs. *)
MaxBufLen == 2

MaxValue == 300

MaxDataLen == 6

MaxSrc == 25

ByteVals == {0, 1, 25, 127, 128, 129, 130, 255}

SumBytes == {0, 1, 255}

(* The byte strings over S of length at most n. *)
RECURSIVE BytesUpTo(_, _)
BytesUpTo(S, n) ==
    IF n = 0 THEN {<<>>}
    ELSE LET P == BytesUpTo(S, n - 1)
         IN  P \cup {Append(b, x) : b \in P, x \in S}

Buffers == BytesUpTo(ByteVals, MaxBufLen)

SumData == BytesUpTo(SumBytes, MaxDataLen)

DstMins == {0 - 3, 0}

DstMaxs == {4, 12, 15}

DomainMins == {0 - 200, 0 - 1, 0}

DomainMaxs == {25, 100, 255}

Domains == DomainMins \X DomainMaxs

Ranges == {0 - 1, 0} \X {1, 7}

(* A Python object carries its type: an int, a bytes object or a float. *)
PyInt(n) == [int |-> n]

PyBytes(b) == [bytes |-> b]

PyFloat(x) == [float |-> x]

(* Outcome of a call: a returned object, None, or a raised exception. *)
Return(v) == [kind |-> "return", val |-> v]

ReturnNone == [kind |-> "None"]

Raise(e) == [kind |-> "raise", exc |-> e]

(* Python numbers.  An int or a float (IEEE 754 binary64) is held exactly as a
   dyadic rational  s * M * 2^e : s the sign (-1, 0, 1), m the limbs of M in
   base 2^LimbBits, least significant first, M odd, and e the exponent.  A
   float is a dyadic whose M has at most MantBits bits, and every float
   operation is the exact result rounded to nearest, ties to even.  The
   limbs keep each intermediate product below 2^31. *)
MantBits == 53

LimbBits == 13

Base == 2^LimbBits

FracLimbs == (MantBits + 2) \div LimbBits + 3

Abs(n) == IF n < 0 THEN 0 - n ELSE n

Sgn(n) == IF n < 0 THEN 0 - 1 ELSE IF n = 0 THEN 0 ELSE 1

SetMax(S) == CHOOSE x \in S : \A y \in S : y <= x

SetMin(S) == CHOOSE x \in S : \A y \in S : x <= y

bit_length(n) == SetMin({k \in 0..30 : Abs(n) < 2^k})

RECURSIVE IntLimbs(_)
IntLimbs(n) == IF n = 0 THEN <<>> ELSE <<n % Base>> \o IntLimbs(n \div Base)

RECURSIVE LimbsInt(_)
LimbsInt(m) == IF m = <<>> THEN 0 ELSE m[1] + Base * LimbsInt(Tail(m))

Limb(m, i) == IF i >= 1 /\ i <= Len(m) THEN m[i] ELSE 0

Bit(m, j) == (Limb(m, j \div LimbBits + 1) \div 2^(j % LimbBits)) % 2

StripHigh(m) ==
    LET nz == {i \in 1..Len(m) : m[i] # 0}
    IN  IF nz = {} THEN <<>> ELSE SubSeq(m, 1, SetMax(nz))

BitLen(m) == IF m = <<>> THEN 0 ELSE LimbBits * (Len(m) - 1) + bit_length(m[Len(m)])

ShiftRight(m, n) ==
    LET q == n \div LimbBits
        r == n % LimbBits
    IN  StripHigh([i \in 1..(Len(m) - q) |->
                     Limb(m, i + q) \div 2^r
                       + (Limb(m, i + q + 1) % 2^r) * 2^(LimbBits - r)])

ShiftLeft(m, n) ==
    LET q == n \div LimbBits
        r == n % LimbBits
    IN  StripHigh([i \in 1..(Len(m) + q + 1) |->
                     (Limb(m, i - q) % 2^(LimbBits - r)) * 2^r
                       + Limb(m, i - q - 1) \div 2^(LimbBits - r)])

Zero == [s |-> 0, m |-> <<>>, e |-> 0]

Canon(s, m, e) ==
    LET h  == StripHigh(m)
        l  == SetMin({i \in 1..Len(h) : h[i] # 0})
        tz == LimbBits * (l - 1) + SetMin({k \in 0..LimbBits : h[l] % 2^(k + 1) # 0})
    IN  IF h = <<>> \/ s = 0 THEN Zero
        ELSE [s |-> s, m |-> ShiftRight(h, tz), e |-> e + tz]

(* Carry propagation over digits ds (any integers, least significant first):
   the limbs of the number and the carry out of the top digit, which is
   negative exactly when the number is. *)
RECURSIVE Carry(_, _, _, _)
Carry(ds, i, c, acc) ==
    IF i > Len(ds) THEN [limbs |-> acc, carry |-> c]
    ELSE Carry(ds, i + 1, (ds[i] + c) \div Base, Append(acc, (ds[i] + c) % Base))

FromDigits(s, ds, e) ==
    LET p == Carry(ds, 1, 0, <<>>)
        q == Carry([i \in 1..Len(ds) |-> 0 - ds[i]], 1, 0, <<>>)
    IN  IF p.carry >= 0
        THEN Canon(s, p.limbs \o IntLimbs(p.carry), e)
        ELSE Canon(0 - s, q.limbs \o IntLimbs(q.carry), e)

FromInt(n) == Canon(Sgn(n), IntLimbs(Abs(n)), 0)

Neg(x) == [x EXCEPT !.s = 0 - x.s]

ExactAdd(x, y) ==
    LET e  == IF x.e < y.e THEN x.e ELSE y.e
        xm == ShiftLeft(x.m, x.e - e)
        ym == ShiftLeft(y.m, y.e - e)
        n  == IF Len(xm) > Len(ym) THEN Len(xm) ELSE Len(ym)
    IN  IF x.s = 0 THEN y
        ELSE IF y.s = 0 THEN x
        ELSE FromDigits(1, [i \in 1..n |-> x.s * Limb(xm, i) + y.s * Limb(ym, i)], e)

RECURSIVE Conv(_, _, _, _)
Conv(xm, ym, k, i) ==
    IF i > Len(xm) THEN 0
    ELSE xm[i] * Limb(ym, k + 1 - i) + Conv(xm, ym, k, i + 1)

ExactMul(x, y) ==
    IF x.s = 0 \/ y.s = 0 THEN Zero
    ELSE FromDigits(x.s * y.s,
                    [k \in 1..(Len(x.m) + Len(y.m)) |-> Conv(x.m, y.m, k, 1)],
                    x.e + y.e)

(* Round to nearest, ties to even, to MantBits significant bits. *)
Round53(x) ==
    LET n    == BitLen(x.m) - MantBits
        kept == ShiftRight(x.m, n)
        up   == Bit(x.m, n - 1) = 1 /\ (n >= 2 \/ kept[1] % 2 = 1)
    IN  IF n <= 0 THEN x
        ELSE IF up THEN FromDigits(x.s, [kept EXCEPT ![1] = kept[1] + 1], x.e + n)
        ELSE Canon(x.s, kept, x.e + n)

(* Long division r / b, one quotient limb a step, FracLimbs limbs below the
   integer part; a remainder still left is the sticky bit below them. *)
RECURSIVE DivLimbs(_, _, _, _)
DivLimbs(r, b, acc, k) ==
    IF k = 0
    THEN IF r = 0 THEN [m |-> acc, e |-> 0 - LimbBits * FracLimbs]
         ELSE [m |-> [ShiftLeft(acc, 1) EXCEPT ![1] = @ + 1],
               e |-> 0 - LimbBits * FracLimbs - 1]
    ELSE DivLimbs((r * Base) % b, b, <<(r * Base) \div b>> \o acc, k - 1)

TrueDiv(a, b) ==
    LET q == DivLimbs(Abs(a) % Abs(b), Abs(b), IntLimbs(Abs(a) \div Abs(b)), FracLimbs)
    IN  Round53(Canon(Sgn(a) * Sgn(b), q.m, q.e))

FAdd(x, y) == Round53(ExactAdd(x, y))

FSub(x, y) == Round53(ExactAdd(x, Neg(y)))

FMul(x, y) == Round53(ExactMul(x, y))

Less(x, y) == ExactAdd(x, Neg(y)).s < 0

(* round(): the nearest integer, ties to the even one. *)
PyRound(x) ==
    LET n  == 0 - x.e
        ip == LimbsInt(ShiftRight(x.m, n))
        up == Bit(x.m, n - 1) = 1 /\ (n >= 2 \/ ip % 2 = 1)
    IN  IF x.s = 0 THEN 0
        ELSE IF x.e >= 0 THEN x.s * LimbsInt(x.m) * 2^(x.e)
        ELSE x.s * (IF up THEN ip + 1 ELSE ip)

(* ---- Integer/byte conversion ---- *)

(* int.from_bytes(value, byteorder='big', signed=signed) *)
RECURSIVE from_bytes_acc(_, _)
from_bytes_acc(value, acc) ==
    IF value = <<>> THEN acc ELSE from_bytes_acc(Tail(value), acc * 256 + Head(value))

from_bytes(value, signed) ==
    LET u == from_bytes_acc(value, 0)
    IN  IF signed /\ value # <<>> /\ value[1] >= 128 THEN u - 256^Len(value) ELSE u

(* int.to_bytes(length, byteorder='big', signed=signed): OverflowError when
   the integer does not fit; with length 0 CPython lets 0 and, signed, -1
   through. *)
to_bytes(v, length, signed) ==
    LET fits == IF signed
                THEN IF length = 0 THEN v = 0 \/ v = 0 - 1
                     ELSE v >= 0 - (256^length \div 2) /\ v < 256^length \div 2
                ELSE v >= 0 /\ v < 256^length
        u    == v % 256^length
    IN  IF fits
        THEN Return(PyBytes([i \in 1..length |-> (u \div 256^(length - i)) % 256]))
        ELSE Raise("OverflowError")

(* Variant: the buffer read least significant byte first. *)
bytes_to_int_le(value, signed) ==
    from_bytes([i \in 1..Len(value) |-> value[Len(value) + 1 - i]], signed)

bytes_to_int(value, signed) == from_bytes(value, signed)

int_to_bytes(value, length, signed) == to_bytes(value, length, signed)

(* ---- BER length codec ---- *)

(* Variant: the long form's length test counts the marker byte out. *)
ber_decode_off(value) ==
    IF bytes_to_int(value, FALSE) < 128
    THEN IF Len(value) > 1 THEN Raise("ValueError")
         ELSE Return(PyInt(bytes_to_int(value, FALSE)))
    ELSE IF Len(value) # value[1] - 128 THEN Raise("ValueError")
         ELSE Return(PyInt(bytes_to_int(Tail(value), FALSE)))

(* The test of the first branch reads the whole buffer as one integer;
   value[0] of the source is value[1] here. *)
ber_decode(value) ==
    IF bytes_to_int(value, FALSE) < 128
    THEN IF Len(value) > 1 THEN Raise("ValueError")
         ELSE Return(PyInt(bytes_to_int(value, FALSE)))
    ELSE IF Len(value) # value[1] - 127 THEN Raise("ValueError")
         ELSE Return(PyInt(bytes_to_int(Tail(value), FALSE)))

(* b1 + b2 on two bytes objects, either of which may have raised. *)
Concat(r1, r2) ==
    IF r1.kind = "raise" THEN r1
    ELSE IF r2.kind = "raise" THEN r2
    ELSE Return(PyBytes(r1.val.bytes \o r2.val.bytes))

(* Variant: the marker byte is 127 + byte_length. *)
ber_encode_marker(value) ==
    IF value < 128
    THEN int_to_bytes(value, 1, FALSE)
    ELSE LET byte_length == ((bit_length(value) - 1) \div 8) + 1
         IN  Concat(int_to_bytes(byte_length + 127, 1, FALSE),
                    int_to_bytes(value, byte_length, FALSE))

(* Variant: the width is bit_length // 8 + 1, one byte too many when
   bit_length is a multiple of 8. *)
ber_encode_wide(value) ==
    IF value < 128
    THEN int_to_bytes(value, 1, FALSE)
    ELSE LET byte_length == bit_length(value) \div 8 + 1
         IN  Concat(int_to_bytes(byte_length + 128, 1, FALSE),
                    int_to_bytes(value, byte_length, FALSE))

ber_encode(value) ==
    IF value < 128
    THEN int_to_bytes(value, 1, FALSE)
    ELSE LET byte_length == ((bit_length(value) - 1) \div 8) + 1
         IN  Concat(int_to_bytes(byte_length + 128, 1, FALSE),
                    int_to_bytes(value, byte_length, FALSE))

(* ---- Packet checksum ---- *)

(* unpack(">{n}H", b): n big-endian 16-bit words; struct.error unless n >= 0
   and b is 2n bytes long. *)
unpack_H(n, b) ==
    IF n < 0 \/ Len(b) # 2 * n THEN Raise("struct.error")
    ELSE Return([words |-> [i \in 1..n |-> b[2 * i - 1] * 256 + b[2 * i]]])

RECURSIVE sum(_)
sum(ws) == IF ws = <<>> THEN 0 ELSE Head(ws) + sum(Tail(ws))

(* data[0:stop] of a bytes object, stop possibly negative. *)
Slice0(data, stop) ==
    LET n == IF stop < 0 THEN Len(data) + stop ELSE stop
        k == IF n < 0 THEN 0 ELSE IF n > Len(data) THEN Len(data) ELSE n
    IN  SubSeq(data, 1, k)

(* Variant: the odd last byte is added as the low byte of a word. *)
packet_checksum_noshift(data) ==
    LET length    == Len(data) - 2
        word_size == length \div 2
        mod       == length % 2
        words     == unpack_H(word_size, Slice0(data, length - mod))
        total     == sum(words.val.words) + (IF mod # 0 THEN data[length] ELSE 0)
    IN  IF words.kind = "raise" THEN words
        ELSE Return(PyBytes(<<(total % 65536) \div 256, total % 256>>))

(* divmod floors, as \div and % do; data[length - 1] of the source is
   data[length] here; words & 0xFFFF is words % 65536 and pack('>H', w) its
   two bytes. *)
packet_checksum(data) ==
    LET length    == Len(data) - 2
        word_size == length \div 2
        mod       == length % 2
        words     == unpack_H(word_size, Slice0(data, length - mod))
        total     == sum(words.val.words) + (IF mod # 0 THEN data[length] * 256 ELSE 0)
    IN  IF words.kind = "raise" THEN words
        ELSE Return(PyBytes(<<(total % 65536) \div 256, total % 256>>))

(* ---- Linear scaling codec ---- *)

(* The two print() calls of the source change no value and are left out.
   src_value is a number (int or float); the bounds are ints. *)
linear_map(src_value, src_domain, dst_range) ==
    LET src_min == src_domain[1]
        src_max == src_domain[2]
        dst_min == dst_range[1]
        dst_max == dst_range[2]
        slope   == TrueDiv(dst_max - dst_min, src_max - src_min)
    IN  IF Less(src_value, FromInt(src_min)) \/ Less(FromInt(src_max), src_value)
        THEN ReturnNone
        ELSE IF src_max - src_min = 0 THEN Raise("ZeroDivisionError")
        ELSE Return(PyFloat(FAdd(FMul(slope, FSub(src_value, FromInt(src_min))),
                               FromInt(dst_min))))

bytes_to_float(value, _domain, _range) ==
    LET lo        == IF _domain[2] < _domain[1] THEN _domain[2] ELSE _domain[1]
        src_value == from_bytes(value, lo < 0)
    IN  linear_map(FromInt(src_value), _domain, _range)

(* round(None) is a TypeError. *)
float_to_bytes(value, _domain, _range) ==
    LET src_domain == _range
        dst_range  == _domain
        dst_min    == dst_range[1]
        dst_max    == dst_range[2]
        length     == (bit_length(dst_max) + 7) \div 8
        dst_value  == linear_map(value, src_domain, dst_range)
    IN  IF dst_value.kind = "raise" THEN dst_value
        ELSE IF dst_value.kind = "None" THEN Raise("TypeError")
        ELSE to_bytes(PyRound(dst_value.val.float), length, dst_min < 0)

(* ---- Calls ---- *)

Init ==
    /\ call = "init"
    /\ arg = <<>>
    /\ ret = ReturnNone
    /\ src = <<>>

BytesToInt ==
    /\ call = "init"
    /\ \E b \in Buffers, sg \in BOOLEAN :
        /\ call' = "bytes_to_int"
        /\ arg' = [value |-> PyBytes(b), signed |-> sg]
        /\ ret' = Return(PyInt(bytes_to_int(b, sg)))
        /\ src' = <<>>

IntToBytes ==
    /\ call = "init"
    /\ \E v \in (0 - MaxValue)..MaxValue, n \in 0..MaxBufLen, sg \in BOOLEAN :
        /\ call' = "int_to_bytes"
        /\ arg' = [value |-> PyInt(v), length |-> n, signed |-> sg]
        /\ ret' = int_to_bytes(v, n, sg)
        /\ src' = <<>>

(* int_to_bytes(bytes_to_int(b), length=len(b)) *)
IntToBytesBack ==
    /\ call = "bytes_to_int"
    /\ ~arg.signed
    /\ call' = "int_to_bytes"
    /\ arg' = [value |-> ret.val, length |-> Len(arg.value.bytes), signed |-> FALSE]
    /\ ret' = int_to_bytes(ret.val.int, Len(arg.value.bytes), FALSE)
    /\ src' = <<arg.value>>

BerEncode ==
    /\ call = "init"
    /\ \E v \in (0 - 1)..MaxValue :
        /\ call' = "ber_encode"
        /\ arg' = [value |-> PyInt(v)]
        /\ ret' = ber_encode(v)
        /\ src' = <<>>

BerDecode ==
    /\ call = "init"
    /\ \E b \in Buffers :
        /\ call' = "ber_decode"
        /\ arg' = [value |-> PyBytes(b)]
        /\ ret' = ber_decode(b)
        /\ src' = <<>>

(* ber_decode(ber_encode(v)) *)
BerDecodeEncoded ==
    /\ call = "ber_encode"
    /\ ret.kind = "return"
    /\ call' = "ber_decode"
    /\ arg' = [value |-> ret.val]
    /\ ret' = ber_decode(ret.val.bytes)
    /\ src' = <<arg.value>>

PacketChecksum ==
    /\ call = "init"
    /\ \E d \in SumData :
        /\ call' = "packet_checksum"
        /\ arg' = [data |-> PyBytes(d)]
        /\ ret' = packet_checksum(d)
        /\ src' = <<>>

LinearMap ==
    /\ call = "init"
    /\ \E v \in (0 - 1)..(MaxSrc + 1), smin \in 0..1, dmin \in DstMins, dmax \in DstMaxs :
      \E smax \in smin..MaxSrc :
        /\ call' = "linear_map"
        /\ arg' = [src_value |-> v, src_domain |-> <<smin, smax>>,
                   dst_range |-> <<dmin, dmax>>]
        /\ ret' = linear_map(FromInt(v), <<smin, smax>>, <<dmin, dmax>>)
        /\ src' = <<>>

BytesToFloat ==
    /\ call = "init"
    /\ \E b \in Buffers, dom \in Domains, rng \in Ranges :
        /\ call' = "bytes_to_float"
        /\ arg' = [value |-> PyBytes(b), domain |-> dom, range |-> rng]
        /\ ret' = bytes_to_float(b, dom, rng)
        /\ src' = <<>>

(* The physical values are the halves k/2 from just below the range to just
   above it. *)
FloatToBytes ==
    /\ call = "init"
    /\ \E dom \in Domains, rng \in Ranges :
      \E k \in (2 * rng[1] - 1)..(2 * rng[2] + 1) :
        /\ call' = "float_to_bytes"
        /\ arg' = [value |-> PyFloat(TrueDiv(k, 2)), domain |-> dom, range |-> rng]
        /\ ret' = float_to_bytes(TrueDiv(k, 2), dom, rng)
        /\ src' = <<>>

(* float_to_bytes(bytes_to_float(b, domain, range), domain, range) *)
FloatToBytesBack ==
    /\ call = "bytes_to_float"
    /\ ret.kind = "return"
    /\ call' = "float_to_bytes"
    /\ arg' = [value |-> ret.val, domain |-> arg.domain, range |-> arg.range]
    /\ ret' = float_to_bytes(ret.val.float, arg.domain, arg.range)
    /\ src' = <<arg.value>>

NextInt == BytesToInt \/ IntToBytes \/ IntToBytesBack

NextBer == BerEncode \/ BerDecode \/ BerDecodeEncoded

NextSum == PacketChecksum

NextMap == LinearMap

NextFix == BytesToFloat \/ FloatToBytes \/ FloatToBytesBack

Next == NextInt \/ NextBer \/ NextSum \/ NextMap \/ NextFix

SpecInt == Init /\ [][NextInt]_vars

SpecBer == Init /\ [][NextBer]_vars

SpecSum == Init /\ [][NextSum]_vars

SpecMap == Init /\ [][NextMap]_vars

SpecFix == Init /\ [][NextFix]_vars

Spec == Init /\ [][Next]_vars

(* ---- Properties ---- *)

(* The value of a buffer read big-endian, first byte most significant. *)
RECURSIVE BigEndianValue(_)
BigEndianValue(b) ==
    IF b = <<>> THEN 0 ELSE b[1] * 256^(Len(b) - 1) + BigEndianValue(Tail(b))

(* ceil(bit_length(n) / 8) *)
ByteWidth(n) == (bit_length(n) + 7) \div 8

(* The sum of the consecutive big-endian 16-bit words of a payload, a last
   odd byte counting as the high byte of a word. *)
RECURSIVE WordSum(_)
WordSum(p) ==
    IF p = <<>> THEN 0
    ELSE IF Len(p) = 1 THEN p[1] * 256
    ELSE p[1] * 256 + p[2] + WordSum(SubSeq(p, 3, Len(p)))

(* Twice a number that is a multiple of 1/2, as an integer. *)
Twice(x) ==
    LET d == ExactAdd(x, x)
    IN  d.s * LimbsInt(d.m) * 2^(d.e)

(* C1: decoding the BER encoding of v gives back v, in the short form and in
   the long form. *)
BerRoundTrip ==
    (call = "ber_decode" /\ src # <<>>) => ret = Return(src[1])

BerRoundTripWitness ==
    /\ call = "ber_decode"
    /\ src = <<PyInt(300)>>
    /\ arg.value = PyBytes(<<130, 1, 44>>)
    /\ ret = Return(PyInt(300))

(* C2: ber_encode(v) is the single byte v for 0 <= v < 128, and otherwise the
   marker 128 + w followed by v big-endian in w = ceil(bit_length(v)/8) bytes,
   the first of them not zero. *)
BerEncodeMinimal ==
    (call = "ber_encode" /\ arg.value.int >= 0) =>
        LET v == arg.value.int
        IN  IF v < 128 THEN ret = Return(PyBytes(<<v>>))
            ELSE /\ ret.kind = "return"
                 /\ Len(ret.val.bytes) = 1 + ByteWidth(v)
                 /\ ret.val.bytes[1] = 128 + ByteWidth(v)
                 /\ BigEndianValue(Tail(ret.val.bytes)) = v
                 /\ ret.val.bytes[2] # 0

BerEncodeMinimalWitness ==
    /\ call = "ber_encode"
    /\ arg.value = PyInt(255)
    /\ ret = Return(PyBytes(<<129, 255>>))

(* C3: on a non-empty buffer ber_decode returns buf[0] for a one-byte short
   form, the big-endian value of buf[1:] for a long form of the declared
   length, and raises for every other length. *)
BerDecodeValidatesLength ==
    (call = "ber_decode" /\ arg.value.bytes # <<>>) =>
        LET buf == arg.value.bytes
        IN  IF buf[1] < 128
            THEN IF Len(buf) = 1 THEN ret = Return(PyInt(buf[1])) ELSE ret.kind = "raise"
            ELSE IF Len(buf) = 1 + (buf[1] - 128)
                 THEN ret = Return(PyInt(BigEndianValue(Tail(buf))))
                 ELSE ret.kind = "raise"

BerDecodeValidatesLengthWitness ==
    /\ call = "ber_decode"
    /\ arg.value = PyBytes(<<0, 129>>)
    /\ ret.kind = "raise"

(* C4: for data of length >= 2 packet_checksum returns the two big-endian
   bytes of the word sum of the payload (data without its last two bytes)
   modulo 2^16, for an even and for an odd payload length. *)
ChecksumOfPayload ==
    (call = "packet_checksum" /\ Len(arg.data.bytes) >= 2) =>
        LET data == arg.data.bytes
            t    == WordSum(SubSeq(data, 1, Len(data) - 2)) % 2^16
        IN  ret = Return(PyBytes(<<t \div 256, t % 256>>))

ChecksumOfPayloadWitness ==
    /\ call = "packet_checksum"
    /\ arg.data = PyBytes(<<255, 255, 1, 0, 0>>)
    /\ ret = Return(PyBytes(<<0, 255>>))

(* C5: linear_map over a source domain with src_min = src_max fails with an
   error for every src_value. *)
DegenerateDomainFails ==
    (call = "linear_map" /\ arg.src_domain[1] = arg.src_domain[2]) =>
        ret.kind = "raise"

(* C6: for src_min < src_max linear_map sends src_min to dst_min and src_max
   to dst_max, returns a value for every src_value inside the domain and no
   result for every src_value outside it. *)
LinearMapBoundary ==
    (call = "linear_map" /\ arg.src_domain[1] < arg.src_domain[2]) =>
        LET v    == arg.src_value
            smin == arg.src_domain[1]
            smax == arg.src_domain[2]
        IN  /\ v = smin => ret = Return(PyFloat(FromInt(arg.dst_range[1])))
            /\ v = smax => ret = Return(PyFloat(FromInt(arg.dst_range[2])))
            /\ (smin <= v /\ v <= smax) => ret.kind = "return"
            /\ (v < smin \/ v > smax) => ret = ReturnNone

(* C7: for a value inside the physical range float_to_bytes returns
   ceil(bit_length(d_max)/8) bytes holding the integer nearest to
   d_min + (value - r_min) * (d_max - d_min) / (r_max - r_min). *)
FloatToBytesEncodes ==
    (/\ call = "float_to_bytes"
     /\ src = <<>>
     /\ 2 * arg.range[1] <= Twice(arg.value.float)
     /\ Twice(arg.value.float) <= 2 * arg.range[2]) =>
        LET d_min == arg.domain[1]
            W     == arg.domain[2] - arg.domain[1]
            R     == arg.range[2] - arg.range[1]
            k     == Twice(arg.value.float) - 2 * arg.range[1]
            n     == from_bytes(ret.val.bytes, d_min < 0)
        IN  /\ ret.kind = "return"
            /\ Len(ret.val.bytes) = ByteWidth(arg.domain[2])
            /\ Abs(2 * R * (n - d_min) - k * W) <= R

(* C8: for a buffer b of one byte or more int_to_bytes(bytes_to_int(b),
   length=len(b)) is b, and the unsigned bytes_to_int(b) is the big-endian
   value of b. *)
IntBytesRoundTrip ==
    /\ (call = "int_to_bytes" /\ src # <<>> /\ Len(src[1].bytes) >= 1) =>
           ret = Return(src[1])
    /\ (call = "bytes_to_int" /\ ~arg.signed) =>
           ret = Return(PyInt(BigEndianValue(arg.value.bytes)))

IntBytesRoundTripWitness ==
    /\ call = "int_to_bytes"
    /\ src = <<PyBytes(<<128, 1>>)>>
    /\ arg.value = PyInt(128 * 256 + 1)
    /\ ret = Return(PyBytes(<<128, 1>>))

(* C9: ber_decode of the empty buffer raises and returns no length. *)
BerDecodeRejectsEmpty ==
    (call = "ber_decode" /\ arg.value.bytes = <<>>) => ret.kind = "raise"

(* C10: a buffer of the domain's width whose integer lies in the domain comes
   back from float_to_bytes(bytes_to_float(b)) unchanged, and bytes_to_float
   returns no result when the integer lies outside the domain. *)
FixedPointRoundTrip ==
    /\ (/\ call = "float_to_bytes"
        /\ src # <<>>
        /\ Len(src[1].bytes) = ByteWidth(arg.domain[2])) =>
           ret = Return(src[1])
    /\ (/\ call = "bytes_to_float"
        /\ Len(arg.value.bytes) = ByteWidth(arg.domain[2])
        /\ \/ from_bytes(arg.value.bytes, arg.domain[1] < 0) < arg.domain[1]
           \/ from_bytes(arg.value.bytes, arg.domain[1] < 0) > arg.domain[2]) =>
           ret = ReturnNone
====
